---- MODULE Spec2Model ----
(***************************************************************************)
(* A model of the grid crate: the typed grid X<T, M> with its rows Y<T, M> *)
(* and cells Point<T> (src/src/x.rs, y.rs, point.rs) and the runtime-flag  *)
(* Grid<T> with Row<T> and Column<T> (src/src/lib.rs).                     *)
(*                                                                         *)
(* Indices are zero based as in the source: vec[i] of the source is        *)
(* vec[i + 1] here.  A Vec is a sequence, a Point<T>/Column<T> is the      *)
(* one-element tuple <<v>>, an Option is <<>> (None) or <<v>> (Some(v)).   *)
(***************************************************************************)
EXTENDS Integers, Sequences, FiniteSets, TLC

\* ---- bounds of the model ------------------------------------------------
MaxRows == 2
MaxCols == 2

\* T is a type parameter that the code uses only through T::default(), moves,
\* clones and ==: a cell holds the default value or some other value
\* the largest row_count and col_count handed to with_size
MaxSize == 5

Default == 0
Values == {Default, 1}

Symetrical == "Symetrical"
Asymetrical == "Asymetrical"

VARIABLES
    g,      \* the program's grid: an X<T, M> (g._mode is its discipline M)
            \* or a Grid<T> (g.symetrical is its flag)
    lhs,    \* left operand of a comparison (a Grid<T> or an X<T, M>)
    rhs,    \* right operand of the comparison
    pre,    \* the receiver (or the argument) as it was when the last call began
    last,   \* the last call: its name, its arguments, its result
    loop    \* the position and the locals of the code in progress

vars == <<g, lhs, rhs, pre, last, loop>>

\* ---- std helpers ----------------------------------------------------------
None == <<>>
Some(v) == <<v>>
Unit == <<>>

\* a call that returned ret / a call that panicked
Returned(ret) == [panic |-> FALSE, ret |-> ret]
Panicked == [panic |-> TRUE, ret |-> <<>>]

\* whether the slice index vec[i] is in bounds (it panics otherwise)
InBounds(vec, i) == i < Len(vec)

\* Vec::resize(new_len, value)
VecResize(vec, new_len, value) ==
    IF new_len <= Len(vec)
    THEN SubSeq(vec, 1, new_len)
    ELSE vec \o [i \in 1..(new_len - Len(vec)) |-> value]

\* Iterator::max over lengths, None on an empty iterator
RECURSIVE IterMax(_)
IterMax(lens) ==
    IF Len(lens) = 0 THEN None
    ELSE LET rest == IterMax(Tail(lens))
         IN  IF rest = None THEN Some(Head(lens))
             ELSE IF rest[1] >= Head(lens) THEN rest ELSE Some(Head(lens))

\* ---- point.rs -------------------------------------------------------------
PointFrom(value) == <<value>>
PointUnwrap(p) == p[1]
Point_eq(a, b) == a[1] = b[1]

\* ---- y.rs -----------------------------------------------------------------
YNew(mode) == [points |-> <<>>, _mode |-> mode]
YLen(self) == Len(self.points)

\* ---- x.rs: X<T, U> ----------------------------------------------------------
XNew(mode) == [rows |-> <<>>, _mode |-> mode]
XLen(self) == Len(self.rows)

\* get_point with the row bound tested by > instead of >=
get_point_gt(self, x, y) ==
    IF x > XLen(self) THEN Returned(None)
    ELSE IF ~InBounds(self.rows, x) THEN Panicked
    ELSE IF y >= YLen(self.rows[x + 1]) THEN Returned(None)
    ELSE IF ~InBounds(self.rows[x + 1].points, y) THEN Panicked
    ELSE Returned(Some(self.rows[x + 1].points[y + 1][1]))

get_point(self, x, y) ==
    IF x >= XLen(self) THEN Returned(None)
    ELSE IF ~InBounds(self.rows, x) THEN Panicked
    ELSE IF y >= YLen(self.rows[x + 1]) THEN Returned(None)
    ELSE IF ~InBounds(self.rows[x + 1].points, y) THEN Panicked
    ELSE Returned(Some(self.rows[x + 1].points[y + 1][1]))

\* the reference returned is modelled by the value it refers to
get_point_mut(self, x, y) ==
    IF x >= XLen(self) THEN Returned(None)
    ELSE IF ~InBounds(self.rows, x) THEN Panicked
    ELSE IF y >= YLen(self.rows[x + 1]) THEN Returned(None)
    ELSE IF ~InBounds(self.rows[x + 1].points, y) THEN Panicked
    ELSE Returned(Some(self.rows[x + 1].points[y + 1][1]))

\* ---- x.rs: X<T, Symetrical> -------------------------------------------------
\* add_row that forgets to resize the new row
add_row_no_resize(self) ==
    [self EXCEPT !.rows = Append(@, YNew(Symetrical))]

\* add_row that fills the new row with copies of the grid's first point
add_row_fill_first(self) ==
    LET pushed == Append(self.rows, YNew(Symetrical))
        grid_depth == YLen(pushed[1])
        len == Len(pushed) - 1
        fill == IF grid_depth = 0 THEN PointFrom(Default) ELSE pushed[1].points[1]
    IN  [self EXCEPT !.rows =
            [pushed EXCEPT ![len + 1].points = VecResize(@, grid_depth, fill)]]

add_row(self) ==
    LET pushed == Append(self.rows, YNew(Symetrical))
        grid_depth == YLen(pushed[1])
        len == Len(pushed) - 1
    IN  [self EXCEPT !.rows =
            [pushed EXCEPT ![len + 1].points =
                VecResize(@, grid_depth, PointFrom(Default))]]

\* add_column that forgets the bootstrap row of an empty grid
add_column_no_bootstrap(self) ==
    [self EXCEPT !.rows =
        [i \in 1..Len(self.rows) |->
            [self.rows[i] EXCEPT !.points = Append(@, PointFrom(Default))]]]

\* add_column that extends row 0 only
add_column_first_only(self) ==
    LET rows == IF Len(self.rows) = 0
                THEN Append(self.rows, YNew(Symetrical))
                ELSE self.rows
    IN  [self EXCEPT !.rows =
            [rows EXCEPT ![1].points = Append(@, PointFrom(Default))]]

add_column(self) ==
    LET rows == IF Len(self.rows) = 0
                THEN Append(self.rows, YNew(Symetrical))
                ELSE self.rows
    IN  [self EXCEPT !.rows =
            [i \in 1..Len(rows) |->
                [rows[i] EXCEPT !.points = Append(@, PointFrom(Default))]]]

\* with_size(row_count, col_count): row_count rows, each of col_count
\* default-valued cells, built directly
with_size(row_count, col_count) ==
    [rows |-> [i \in 1..row_count |->
                 [points |-> [j \in 1..col_count |-> PointFrom(Default)],
                  _mode |-> Symetrical]],
     _mode |-> Symetrical]

\* the number of elements of the range a..b
RangeExclusiveCount(a, b) == IF a < b THEN b - a ELSE 0

\* the range a..b written where a..=b is meant
RangeInclusiveCount_exclusive(a, b) == IF a < b THEN b - a ELSE 0

\* the number of elements of the range a..=b: a `for _ in a..=b` loop runs
\* its body that many times
RangeInclusiveCount(a, b) == IF a <= b THEN b - a + 1 ELSE 0

RECURSIVE AddColumns(_, _)
AddColumns(self, n) == IF n = 0 THEN self ELSE AddColumns(add_column(self), n - 1)

\* the row loop running once too often
RECURSIVE AddRowsExtra(_, _)
AddRowsExtra(self, n) ==
    IF n = 0 THEN add_row(self) ELSE AddRowsExtra(add_row(self), n - 1)

RECURSIVE AddRows(_, _)
AddRows(self, n) == IF n = 0 THEN self ELSE AddRows(add_row(self), n - 1)

\* the three growth steps of push_point, before the final indexed write
push_point_grow(self, x, y) ==
    LET s1 == IF Len(self.rows) = 0
              THEN [self EXCEPT !.rows = Append(@, YNew(Symetrical))]
              ELSE self
        s2 == IF YLen(s1.rows[1]) <= y
              THEN AddColumns(s1, RangeInclusiveCount(YLen(s1.rows[1]), y))
              ELSE s1
        s3 == IF Len(s2.rows) <= x
              THEN AddRows(s2, RangeInclusiveCount(Len(s2.rows), x))
              ELSE s2
    IN  s3

\* result: the grid after the call and whether the call panicked at the
\* final indexed write self.rows[x][y]
push_point(self, x, y, value) ==
    LET grown == push_point_grow(self, x, y)
    IN  IF ~InBounds(grown.rows, x) THEN [self |-> grown, panic |-> TRUE]
        ELSE IF ~InBounds(grown.rows[x + 1].points, y)
             THEN [self |-> grown, panic |-> TRUE]
        ELSE [self |-> [grown EXCEPT !.rows[x + 1].points[y + 1] = PointFrom(value)],
              panic |-> FALSE]

\* push_point one statement at a time.  st is the position in the body and its
\* locals: pc names the statement about to run, n the iterations the current
\* for loop has left (its range is evaluated once, when the loop is entered).
PushPointEntry(x, y, value) ==
    [pc |-> "bootstrap", x |-> x, y |-> y, value |-> value, n |-> 0]

\* the row loop placed before the column loop
push_point_step_rows_first(self, st) ==
    IF st.pc = "bootstrap" THEN
        LET s1 == IF Len(self.rows) = 0
                  THEN [self EXCEPT !.rows = Append(@, YNew(Symetrical))]
                  ELSE self
        IN  [self |-> s1, panic |-> FALSE,
             st |-> [st EXCEPT !.pc = "rows",
                               !.n = IF Len(s1.rows) <= st.x
                                     THEN RangeInclusiveCount(Len(s1.rows), st.x)
                                     ELSE 0]]
    ELSE IF st.pc = "rows" THEN
        IF st.n > 0
        THEN [self |-> add_row(self), panic |-> FALSE, st |-> [st EXCEPT !.n = @ - 1]]
        ELSE [self |-> self, panic |-> FALSE,
              st |-> [st EXCEPT !.pc = "columns",
                                !.n = IF YLen(self.rows[1]) <= st.y
                                      THEN RangeInclusiveCount(YLen(self.rows[1]), st.y)
                                      ELSE 0]]
    ELSE IF st.pc = "columns" THEN
        IF st.n > 0
        THEN [self |-> add_column(self), panic |-> FALSE, st |-> [st EXCEPT !.n = @ - 1]]
        ELSE [self |-> self, panic |-> FALSE, st |-> [st EXCEPT !.pc = "write"]]
    ELSE
        IF ~InBounds(self.rows, st.x)
        THEN [self |-> self, panic |-> TRUE, st |-> [pc |-> "idle"]]
        ELSE IF ~InBounds(self.rows[st.x + 1].points, st.y)
             THEN [self |-> self, panic |-> TRUE, st |-> [pc |-> "idle"]]
        ELSE [self |-> [self EXCEPT !.rows[st.x + 1].points[st.y + 1] =
                                        PointFrom(st.value)],
              panic |-> FALSE, st |-> [pc |-> "idle"]]

\* result: the grid and the position after the statement, and whether the
\* statement panicked
push_point_step(self, st) ==
    IF st.pc = "bootstrap" THEN
        \* if self.rows.len() == 0 { self.rows.push(Y::new()) }
        \* then: if self.rows[0].len() <= y { for _ in self.rows[0].len()..=y
        LET s1 == IF Len(self.rows) = 0
                  THEN [self EXCEPT !.rows = Append(@, YNew(Symetrical))]
                  ELSE self
        IN  [self |-> s1, panic |-> FALSE,
             st |-> [st EXCEPT !.pc = "columns",
                               !.n = IF YLen(s1.rows[1]) <= st.y
                                     THEN RangeInclusiveCount(YLen(s1.rows[1]), st.y)
                                     ELSE 0]]
    ELSE IF st.pc = "columns" THEN
        \* self.add_column() while the loop runs
        \* then: if self.rows.len() <= x { for _ in self.rows.len()..=x
        IF st.n > 0
        THEN [self |-> add_column(self), panic |-> FALSE, st |-> [st EXCEPT !.n = @ - 1]]
        ELSE [self |-> self, panic |-> FALSE,
              st |-> [st EXCEPT !.pc = "rows",
                                !.n = IF Len(self.rows) <= st.x
                                      THEN RangeInclusiveCount(Len(self.rows), st.x)
                                      ELSE 0]]
    ELSE IF st.pc = "rows" THEN
        \* self.add_row() while the loop runs
        IF st.n > 0
        THEN [self |-> add_row(self), panic |-> FALSE, st |-> [st EXCEPT !.n = @ - 1]]
        ELSE [self |-> self, panic |-> FALSE, st |-> [st EXCEPT !.pc = "write"]]
    ELSE
        \* self.rows[x][y] = value.into()
        IF ~InBounds(self.rows, st.x)
        THEN [self |-> self, panic |-> TRUE, st |-> [pc |-> "idle"]]
        ELSE IF ~InBounds(self.rows[st.x + 1].points, st.y)
             THEN [self |-> self, panic |-> TRUE, st |-> [pc |-> "idle"]]
        ELSE [self |-> [self EXCEPT !.rows[st.x + 1].points[st.y + 1] =
                                        PointFrom(st.value)],
              panic |-> FALSE, st |-> [pc |-> "idle"]]

\* ---- y.rs: Y<T, Asymetrical> and the conversions -----------------------------
Y_push(self, value) == [self EXCEPT !.points = Append(@, PointFrom(value))]

\* a pop that takes the first point instead of the last one
Y_pop_first(self) ==
    IF Len(self.points) = 0
    THEN [self |-> self, ret |-> None]
    ELSE [self |-> [self EXCEPT !.points = SubSeq(@, 2, Len(@))],
          ret |-> Some(PointUnwrap(self.points[1]))]

\* result: the row after the call and the value returned
Y_pop(self) ==
    IF Len(self.points) = 0
    THEN [self |-> self, ret |-> None]
    ELSE [self |-> [self EXCEPT !.points = SubSeq(@, 1, Len(@) - 1)],
          ret |-> Some(PointUnwrap(self.points[Len(self.points)]))]

\* impl FromIterator<A> for Y<A, M>
Y_from_iter(iter, mode) ==
    [points |-> [i \in 1..Len(iter) |-> PointFrom(iter[i])], _mode |-> mode]

\* impl From<Y<T, Asymetrical>> for Y<T, Symetrical>
YSymFromAsym(other) == [points |-> other.points, _mode |-> Symetrical]

\* the relabelling that builds a new row and leaves the points behind
YAsymFromSym_new(other) == [points |-> <<>>, _mode |-> Asymetrical]

\* impl From<Y<T, Symetrical>> for Y<T, Asymetrical>
YAsymFromSym(other) == [points |-> other.points, _mode |-> Asymetrical]

\* impl From<&[T]> for Y<T, Asymetrical>
Y_from_slice(v) ==
    [points |-> [i \in 1..Len(v) |-> PointFrom(v[i])], _mode |-> Asymetrical]

\* Y<T, Symetrical>::into_asymetrical, Y<T, Asymetrical>::into_symetrical
Y_into_asymetrical(self) == YAsymFromSym(self)
Y_into_symetrical(self) == YSymFromAsym(self)

\* ---- x.rs: X<T, Asymetrical> --------------------------------------------------
asym_add_row(self) == [self EXCEPT !.rows = Append(@, YNew(Asymetrical))]

\* pop_row taking the row at the front
pop_row_first(self) ==
    IF Len(self.rows) = 0
    THEN [self |-> self, ret |-> None]
    ELSE [self |-> [self EXCEPT !.rows = Tail(@)],
          ret |-> Some(self.rows[1])]

\* result: the grid after the call and the value returned
pop_row(self) ==
    IF Len(self.rows) = 0
    THEN [self |-> self, ret |-> None]
    ELSE [self |-> [self EXCEPT !.rows = SubSeq(@, 1, Len(@) - 1)],
          ret |-> Some(self.rows[Len(self.rows)])]

\* resize that never truncates
resize_grow_only(self, new_len) ==
    IF new_len <= Len(self.rows) THEN self
    ELSE [self EXCEPT !.rows = VecResize(@, new_len, YNew(Asymetrical))]

resize(self, new_len) ==
    [self EXCEPT !.rows = VecResize(@, new_len, YNew(Asymetrical))]

push_row(self, row) == [self EXCEPT !.rows = Append(@, row)]

\* impl FromIterator<Vec<A>> for X<A, U>
X_from_iter(iter, mode) ==
    [rows |-> [i \in 1..Len(iter) |-> Y_from_iter(iter[i], mode)], _mode |-> mode]

\* the body of `for _ in i.len()..max { i.push(T::default()) }`
RECURSIVE PushDefaults(_, _)
PushDefaults(row, n) ==
    IF n = 0 THEN row ELSE PushDefaults(Y_push(row, Default), n - 1)

\* the padding loop written with the inclusive range i.len()..=max
XSymFromAsym_pad_inclusive(other) ==
    LET lens == [i \in 1..Len(other.rows) |-> YLen(other.rows[i])]
        found == IterMax(lens)
        max == IF found = None THEN 0 ELSE found[1]
        padded == [i \in 1..Len(other.rows) |->
                     PushDefaults(other.rows[i],
                                  RangeInclusiveCount(YLen(other.rows[i]), max))]
    IN  [rows |-> [i \in 1..Len(padded) |-> YSymFromAsym(padded[i])],
         _mode |-> Symetrical]

\* the padding taking the length of row 0 for the maximum
XSymFromAsym_first_len(other) ==
    LET max == IF Len(other.rows) = 0 THEN 0 ELSE YLen(other.rows[1])
        padded == [i \in 1..Len(other.rows) |->
                     PushDefaults(other.rows[i],
                                  RangeExclusiveCount(YLen(other.rows[i]), max))]
    IN  [rows |-> [i \in 1..Len(padded) |-> YSymFromAsym(padded[i])],
         _mode |-> Symetrical]

\* impl From<X<T, Asymetrical>> for X<T, Symetrical>
XSymFromAsym(other) ==
    LET lens == [i \in 1..Len(other.rows) |-> YLen(other.rows[i])]
        found == IterMax(lens)
        max == IF found = None THEN 0 ELSE found[1]
        padded == [i \in 1..Len(other.rows) |->
                     PushDefaults(other.rows[i],
                                  RangeExclusiveCount(YLen(other.rows[i]), max))]
    IN  [rows |-> [i \in 1..Len(padded) |-> YSymFromAsym(padded[i])],
         _mode |-> Symetrical]

\* impl From<X<T, Symetrical>> for X<T, Asymetrical>
XAsymFromSym(other) ==
    [rows |-> [i \in 1..Len(other.rows) |-> YAsymFromSym(other.rows[i])],
     _mode |-> Asymetrical]

into_symetrical(self) == XSymFromAsym(self)
into_asymetrical(self) == XAsymFromSym(self)

\* impl From<&[&[T]]> for X<T, Asymetrical>
RECURSIVE PushRows(_, _)
PushRows(x, c) ==
    IF Len(c) = 0 THEN x
    ELSE PushRows(push_row(x, Y_from_slice(Head(c))), Tail(c))

X_from_slices(c) == PushRows(XNew(Asymetrical), c)

\* ---- equality -----------------------------------------------------------------
\* Vec<A> == Vec<A>: equal length and elementwise equal under eq
\* impl PartialEq for Y<T, U>
Y_eq(self, other) ==
    /\ Len(self.points) = Len(other.points)
    /\ \A i \in 1..Len(self.points) : Point_eq(self.points[i], other.points[i])

\* impl PartialEq for X<T, U>
X_eq(self, other) ==
    /\ Len(self.rows) = Len(other.rows)
    /\ \A i \in 1..Len(self.rows) : Y_eq(self.rows[i], other.rows[i])

\* ---- lib.rs: Column<T>, Row<T>, Grid<T> ---------------------------------------
ColumnFrom(value) == <<value>>
Column_eq(a, b) == a[1] = b[1]

\* a Row<T> is its Vec<Column<T>>
Row_eq(self, other) ==
    /\ Len(self) = Len(other)
    /\ \A i \in 1..Len(self) : Column_eq(self[i], other[i])

\* impl PartialEq for Grid<T>
Grid_eq(self, other) ==
    /\ Len(self.rows) = Len(other.rows)
    /\ \A i \in 1..Len(self.rows) : Row_eq(self.rows[i], other.rows[i])
    /\ self.symetrical = self.symetrical

\* struct Grid<T> { rows, symetrical } holding the given rows of values
GridWith(rows, symetrical) ==
    [rows |-> [i \in 1..Len(rows) |->
                 [j \in 1..Len(rows[i]) |-> ColumnFrom(rows[i][j])]],
     symetrical |-> symetrical]

\* Row::new, Row::push, Row::pop and impl FromIterator<A> for Row<A>
Row_new == <<>>
Row_push(self, value) == Append(self, ColumnFrom(value))

\* result: the row after the call and the value returned
Row_pop(self) ==
    IF Len(self) = 0
    THEN [self |-> self, ret |-> None]
    ELSE [self |-> SubSeq(self, 1, Len(self) - 1), ret |-> Some(self[Len(self)][1])]

Row_from_iter(iter) == [i \in 1..Len(iter) |-> <<iter[i]>>]

Grid_new == [rows |-> <<>>, symetrical |-> TRUE]
Grid_new_no_symetry == [rows |-> <<>>, symetrical |-> FALSE]

\* Grid::add_row that never resizes the new row
Grid_add_row_no_resize(self) == [self EXCEPT !.rows = Append(@, Row_new)]

Grid_add_row(self) ==
    LET pushed == Append(self.rows, Row_new)
    IN  IF self.symetrical
        THEN LET len == Len(pushed)
                 grid_depth == Len(pushed[1])
             IN  [self EXCEPT !.rows =
                    [pushed EXCEPT ![len] = VecResize(@, grid_depth, ColumnFrom(Default))]]
        ELSE [self EXCEPT !.rows = pushed]

\* Grid::add_column without the check of the symetrical flag
Grid_add_column_unchecked(self) ==
    LET rows == IF Len(self.rows) = 0 THEN Append(self.rows, Row_new) ELSE self.rows
    IN  [self |-> [self EXCEPT !.rows =
                     [i \in 1..Len(rows) |-> Row_push(rows[i], Default)]],
         panic |-> FALSE]

\* result: the grid after the call and whether the call panicked
Grid_add_column(self) ==
    IF ~self.symetrical THEN [self |-> self, panic |-> TRUE]
    ELSE LET rows == IF Len(self.rows) = 0
                     THEN Append(self.rows, Row_new)
                     ELSE self.rows
         IN  [self |-> [self EXCEPT !.rows =
                          [i \in 1..Len(rows) |-> Row_push(rows[i], Default)]],
              panic |-> FALSE]

\* `for _ in a..=b { self.add_column() }`; every call is on a symetrical grid
RECURSIVE Grid_AddColumns(_, _)
Grid_AddColumns(self, n) ==
    IF n = 0 THEN self ELSE Grid_AddColumns(Grid_add_column(self).self, n - 1)

RECURSIVE Grid_AddRows(_, _)
Grid_AddRows(self, n) ==
    IF n = 0 THEN self ELSE Grid_AddRows(Grid_add_row(self), n - 1)

\* result: the grid after the call and whether the call panicked, at the
\* check of the flag or at the final indexed write self[x][y]
Grid_push_point(self, x, y, value) ==
    IF ~self.symetrical THEN [self |-> self, panic |-> TRUE]
    ELSE
        LET s1 == IF Len(self.rows) = 0
                  THEN [self EXCEPT !.rows = Append(@, Row_new)]
                  ELSE self
            s2 == IF Len(s1.rows[1]) <= y
                  THEN Grid_AddColumns(s1, RangeInclusiveCount(Len(s1.rows[1]), y))
                  ELSE s1
            s3 == IF Len(s2.rows) <= x
                  THEN Grid_AddRows(s2, RangeInclusiveCount(Len(s2.rows), x))
                  ELSE s2
        IN  IF ~InBounds(s3.rows, x) THEN [self |-> s3, panic |-> TRUE]
            ELSE IF ~InBounds(s3.rows[x + 1], y) THEN [self |-> s3, panic |-> TRUE]
            ELSE [self |-> [s3 EXCEPT !.rows[x + 1][y + 1] = ColumnFrom(value)],
                  panic |-> FALSE]

\* impl FromIterator<Vec<A>> for Grid<A>
Grid_from_iter(iter) ==
    [rows |-> [i \in 1..Len(iter) |-> Row_from_iter(iter[i])], symetrical |-> FALSE]

\* every row of a Grid<T> has the length of every other
Grid_IsRectangular(self) ==
    \A i, j \in 1..Len(self.rows) : Len(self.rows[i]) = Len(self.rows[j])

\* the values of a Grid<T>, row by row, without the wrappers
Grid_Cells(self) ==
    [i \in 1..Len(self.rows) |-> [j \in 1..Len(self.rows[i]) |-> self.rows[i][j][1]]]

\* ---- observations used by the properties --------------------------------------
\* the column count of a grid: the length of row 0, or 0 without rows
Columns(self) == IF Len(self.rows) = 0 THEN 0 ELSE YLen(self.rows[1])

\* the row lengths of a grid, in row order
Shape(self) == [i \in 1..Len(self.rows) |-> YLen(self.rows[i])]

\* the cell values of a grid, row by row, without the wrappers
Cells(self) ==
    [i \in 1..Len(self.rows) |->
        [j \in 1..YLen(self.rows[i]) |-> PointUnwrap(self.rows[i].points[j])]]

IsRectangular(self) ==
    \A i, j \in 1..Len(self.rows) : YLen(self.rows[i]) = YLen(self.rows[j])

Max(a, b) == IF a >= b THEN a ELSE b

\* ---- inputs -------------------------------------------------------------------
RowInputs == UNION {[1..n -> Values] : n \in 0..MaxCols}
GridInputs == UNION {[1..n -> RowInputs] : n \in 0..MaxRows}

EqRowInputs == UNION {[1..n -> Values] : n \in 0..(MaxCols - 1)}
EqGridInputs == UNION {[1..n -> EqRowInputs] : n \in 0..MaxRows}

\* ---- the calls ----------------------------------------------------------------
Call(op, args, res) == [op |-> op, args |-> args, panic |-> res.panic, ret |-> res.ret]

NoOperands == UNCHANGED <<lhs, rhs, loop>>

\* no multi-step code is in progress
LoopIdle == [pc |-> "idle"]

\* no call is in progress: the grid is not borrowed and the caller holds no
\* result of an earlier call
Idle == [op |-> "idle", args |-> <<>>, panic |-> FALSE, ret |-> <<>>]
Ready == last.op \in {"new", "idle"}

\* let mut grid: X<T, Symetrical> = X::new();
Init ==
    /\ g = XNew(Symetrical)
    /\ lhs = XNew(Symetrical)
    /\ rhs = XNew(Symetrical)
    /\ pre = XNew(Symetrical)
    /\ last = Call("new", <<>>, Returned(Unit))
    /\ loop = LoopIdle

\* X::new() of either discipline
InitX ==
    /\ g \in {XNew(Symetrical), XNew(Asymetrical)}
    /\ lhs = XNew(Symetrical)
    /\ rhs = XNew(Symetrical)
    /\ pre = g
    /\ last = Call("new", <<>>, Returned(Unit))
    /\ loop = LoopIdle

\* -- X<T, Symetrical>
AddRow ==
    /\ Ready
    /\ g._mode = Symetrical
    /\ XLen(g) < MaxRows
    /\ g' = add_row(g)
    /\ pre' = g
    /\ last' = Call("add_row", <<>>, Returned(Unit))
    /\ NoOperands

AddColumn ==
    /\ Ready
    /\ g._mode = Symetrical
    /\ \A i \in 1..XLen(g) : YLen(g.rows[i]) < MaxCols
    /\ g' = add_column(g)
    /\ pre' = g
    /\ last' = Call("add_column", <<>>, Returned(Unit))
    /\ NoOperands

PushPoint ==
    /\ Ready
    /\ g._mode = Symetrical
    /\ \E x \in 0..(MaxRows - 1), y \in 0..(MaxCols - 1), v \in Values :
        LET r == push_point(g, x, y, v)
        IN  /\ \A i \in 1..XLen(r.self) : YLen(r.self.rows[i]) <= MaxCols
            /\ g' = r.self
            /\ pre' = g
            /\ last' = Call("push_point", <<x, y, v>>,
                            IF r.panic THEN Panicked ELSE Returned(Unit))
    /\ NoOperands

\* grid.into_asymetrical().into_symetrical()
ToJaggedToRectangular ==
    /\ Ready
    /\ g._mode = Symetrical
    /\ g' = into_symetrical(into_asymetrical(g))
    /\ pre' = g
    /\ last' = Call("into_asymetrical.into_symetrical", <<>>, Returned(Unit))
    /\ NoOperands

\* -- X<T, U>
GetPoint ==
    /\ Ready
    /\ \E x \in 0..MaxRows, y \in 0..MaxCols :
        last' = Call("get_point", <<x, y>>, get_point(g, x, y))
    /\ pre' = g
    /\ UNCHANGED g
    /\ NoOperands

\* grid.get_point_mut(x, y).map(|p| *p = v)
GetPointMut ==
    /\ Ready
    /\ \E x \in 0..MaxRows, y \in 0..MaxCols, v \in Values :
        LET r == get_point_mut(g, x, y)
        IN  /\ last' = Call("get_point_mut", <<x, y, v>>, r)
            /\ g' = IF ~r.panic /\ r.ret # None
                    THEN [g EXCEPT !.rows[x + 1].points[y + 1] = PointFrom(v)]
                    ELSE g
    /\ pre' = g
    /\ NoOperands

\* -- conversions
IntoAsymetrical ==
    /\ Ready
    /\ g._mode = Symetrical
    /\ g' = into_asymetrical(g)
    /\ pre' = g
    /\ last' = Call("into_asymetrical", <<>>, Returned(Unit))
    /\ NoOperands

IntoSymetrical ==
    /\ Ready
    /\ g._mode = Asymetrical
    /\ g' = into_symetrical(g)
    /\ pre' = g
    /\ last' = Call("into_symetrical", <<>>, Returned(Unit))
    /\ NoOperands

\* -- X<T, Asymetrical>
AsymAddRow ==
    /\ Ready
    /\ g._mode = Asymetrical
    /\ XLen(g) < MaxRows
    /\ g' = asym_add_row(g)
    /\ pre' = g
    /\ last' = Call("add_row", <<>>, Returned(Unit))
    /\ NoOperands

PushRow ==
    /\ Ready
    /\ g._mode = Asymetrical
    /\ XLen(g) < MaxRows
    /\ \E row \in RowInputs :
        /\ g' = push_row(g, Y_from_slice(row))
        /\ last' = Call("push_row", <<row>>, Returned(Unit))
    /\ pre' = g
    /\ NoOperands

PopRow ==
    /\ Ready
    /\ g._mode = Asymetrical
    /\ LET r == pop_row(g)
       IN  /\ g' = r.self
           /\ last' = Call("pop_row", <<>>, Returned(r.ret))
    /\ pre' = g
    /\ NoOperands

Resize ==
    /\ Ready
    /\ g._mode = Asymetrical
    /\ \E new_len \in 0..MaxRows :
        /\ g' = resize(g, new_len)
        /\ last' = Call("resize", <<new_len>>, Returned(Unit))
    /\ pre' = g
    /\ NoOperands

\* grid[i].push(value)
YPush ==
    /\ Ready
    /\ g._mode = Asymetrical
    /\ \E i \in 0..(XLen(g) - 1), value \in Values :
        /\ YLen(g.rows[i + 1]) < MaxCols
        /\ g' = [g EXCEPT !.rows[i + 1] = Y_push(@, value)]
        /\ last' = Call("Y::push", <<i, value>>, Returned(Unit))
    /\ pre' = g
    /\ NoOperands

\* grid[i].pop()
YPop ==
    /\ Ready
    /\ g._mode = Asymetrical
    /\ \E i \in 0..(XLen(g) - 1) :
        LET r == Y_pop(g.rows[i + 1])
        IN  /\ g' = [g EXCEPT !.rows[i + 1] = r.self]
            /\ last' = Call("Y::pop", <<i>>, Returned(r.ret))
    /\ pre' = g
    /\ NoOperands

\* grid[i].clone().into_asymetrical()
YIntoAsymetrical ==
    /\ Ready
    /\ g._mode = Symetrical
    /\ \E i \in 0..(XLen(g) - 1) :
        last' = Call("Y::into_asymetrical", <<i>>,
                     Returned(<<Y_into_asymetrical(g.rows[i + 1])>>))
    /\ pre' = g
    /\ UNCHANGED g
    /\ NoOperands

\* grid[i].clone().into_symetrical()
YIntoSymetrical ==
    /\ Ready
    /\ g._mode = Asymetrical
    /\ \E i \in 0..(XLen(g) - 1) :
        last' = Call("Y::into_symetrical", <<i>>,
                     Returned(<<Y_into_symetrical(g.rows[i + 1])>>))
    /\ pre' = g
    /\ UNCHANGED g
    /\ NoOperands

\* -- construction from rows supplied by the caller, where the program starts
\* rows.into_iter().collect::<X<T, U>>()
FromIter ==
    /\ last.op = "new"
    /\ \E iter \in GridInputs, mode \in {Symetrical, Asymetrical} :
        /\ g' = X_from_iter(iter, mode)
        /\ pre' = iter
        /\ last' = Call("from_iter", <<mode>>, Returned(Unit))
    /\ NoOperands

\* X::from(&slices[..])
FromSlices ==
    /\ last.op = "new"
    /\ \E c \in GridInputs :
        /\ g' = X_from_slices(c)
        /\ pre' = c
        /\ last' = Call("from_slices", <<>>, Returned(Unit))
    /\ NoOperands

\* the call has returned and the caller is done with its result (the borrow
\* of the grid taken by the call, or held by the returned reference, ends)
Return ==
    /\ ~Ready
    /\ last' = Idle
    /\ pre' = g
    /\ UNCHANGED <<g, lhs, rhs, loop>>

\* -- push_point observed one statement at a time
\* the call is entered: its arguments are bound, nothing has run yet
PushPointBegin ==
    /\ Ready
    /\ loop.pc = "idle"
    /\ g._mode = Symetrical
    /\ \E x \in 0..(MaxRows - 1), y \in 0..(MaxCols - 1), v \in Values :
        loop' = PushPointEntry(x, y, v)
    /\ pre' = g
    /\ last' = Idle
    /\ UNCHANGED <<g, lhs, rhs>>

\* the next statement of the body runs; the last one is the indexed write,
\* after which the call is over
PushPointStep ==
    /\ loop.pc # "idle"
    /\ LET r == push_point_step(g, loop)
       IN  /\ g' = r.self
           /\ loop' = r.st
           /\ last' = IF loop.pc = "write"
                      THEN Call("push_point", <<loop.x, loop.y, loop.value>>,
                                IF r.panic THEN Panicked ELSE Returned(Unit))
                      ELSE last
    /\ UNCHANGED <<pre, lhs, rhs>>

\* add_row and add_column called between two push_point calls
StepsAddRow == loop.pc = "idle" /\ AddRow
StepsAddColumn == loop.pc = "idle" /\ AddColumn

\* -- a grid built directly against a grid grown call by call
\* what the caller does next: add_row() while calls are left, then
\* add_column() while calls are left, then the comparison
SizePosition(rows_left, columns_left) ==
    IF rows_left > 0 THEN "rows"
    ELSE IF columns_left > 0 THEN "columns"
    ELSE "compare"

\* let sized = with_size(row_count, col_count); let mut grid = X::new();
InitSize ==
    /\ \E row_count \in 0..MaxSize, col_count \in 0..MaxSize :
        /\ lhs = with_size(row_count, col_count)
        /\ loop = [pc |-> SizePosition(row_count, col_count),
                   row_count |-> row_count, col_count |-> col_count,
                   rows_left |-> row_count, columns_left |-> col_count]
    /\ g = XNew(Symetrical)
    /\ rhs = XNew(Symetrical)
    /\ pre = XNew(Symetrical)
    /\ last = Call("new", <<>>, Returned(Unit))

\* grid.add_row(), one of the row_count calls
SizeAddRow ==
    /\ loop.pc = "rows"
    /\ g' = add_row(g)
    /\ pre' = g
    /\ last' = Call("add_row", <<>>, Returned(Unit))
    /\ loop' = [loop EXCEPT !.rows_left = @ - 1,
                            !.pc = SizePosition(loop.rows_left - 1, loop.columns_left)]
    /\ UNCHANGED <<lhs, rhs>>

\* grid.add_column(), one of the col_count calls
SizeAddColumn ==
    /\ loop.pc = "columns"
    /\ g' = add_column(g)
    /\ pre' = g
    /\ last' = Call("add_column", <<>>, Returned(Unit))
    /\ loop' = [loop EXCEPT !.columns_left = @ - 1,
                            !.pc = SizePosition(0, loop.columns_left - 1)]
    /\ UNCHANGED <<lhs, rhs>>

\* sized == grid
SizeCompare ==
    /\ loop.pc = "compare"
    /\ last' = Call("eq", <<>>, Returned(<<X_eq(lhs, g)>>))
    /\ loop' = [loop EXCEPT !.pc = "done"]
    /\ UNCHANGED <<g, lhs, rhs, pre>>

\* -- two calls made in either order on clones of the grid
\* push_point(a) then push_point(b); a panic of the first call ends the run
PushPointTwice(self, a, b) ==
    LET r1 == push_point(self, a.x, a.y, a.value)
    IN  IF r1.panic THEN r1 ELSE push_point(r1.self, b.x, b.y, b.value)

\* push_point as one call, between two calls of the caller
WholePushPoint == loop.pc = "idle" /\ PushPoint

\* let mut lhs = grid.clone(); lhs.push_point(a); lhs.push_point(b);
\* let mut rhs = grid.clone(); rhs.push_point(b); rhs.push_point(a);
\* lhs == rhs
PushPointBothOrders ==
    /\ Ready
    /\ loop.pc = "idle"
    /\ g._mode = Symetrical
    /\ \E x1 \in 0..MaxRows, y1 \in 0..MaxCols, v1 \in Values,
          x2 \in 0..MaxRows, y2 \in 0..MaxCols, v2 \in Values :
        LET a == [x |-> x1, y |-> y1, value |-> v1]
            b == [x |-> x2, y |-> y2, value |-> v2]
            ab == PushPointTwice(g, a, b)
            ba == PushPointTwice(g, b, a)
        IN  \* two distinct points; swapping a and b swaps lhs and rhs, so
            \* each pair is taken once, a before b in row-major order
            /\ (x1 < x2 \/ (x1 = x2 /\ y1 < y2))
            /\ lhs' = ab.self
            /\ rhs' = ba.self
            /\ last' = Call("push_point.push_point", <<a, b>>,
                            IF ab.panic \/ ba.panic THEN Panicked
                            ELSE Returned(<<X_eq(ab.self, ba.self)>>))
    /\ pre' = g
    /\ loop' = [pc |-> "compared"]
    /\ UNCHANGED g

\* let mut lhs = grid.clone(); lhs.add_row(); lhs.add_column();
\* let mut rhs = grid.clone(); rhs.add_column(); rhs.add_row();
\* lhs == rhs
AddRowAddColumnBothOrders ==
    /\ Ready
    /\ loop.pc = "idle"
    /\ g._mode = Symetrical
    /\ lhs' = add_column(add_row(g))
    /\ rhs' = add_row(add_column(g))
    /\ last' = Call("add_row.add_column", <<>>,
                    Returned(<<X_eq(add_column(add_row(g)), add_row(add_column(g)))>>))
    /\ pre' = g
    /\ loop' = [pc |-> "compared"]
    /\ UNCHANGED g

\* -- comparisons
InitEq ==
    /\ g = XNew(Symetrical)
    /\ pre = XNew(Symetrical)
    /\ last = Call("new", <<>>, Returned(Unit))
    /\ loop = LoopIdle
    /\ \E a \in EqGridInputs, b \in EqGridInputs :
        \/ \E sa \in BOOLEAN, sb \in BOOLEAN :
            /\ lhs = GridWith(a, sa)
            /\ rhs = GridWith(b, sb)
        \/ \E mode \in {Symetrical, Asymetrical} :
            /\ lhs = X_from_iter(a, mode)
            /\ rhs = X_from_iter(b, mode)

IsGrid(v) == "symetrical" \in DOMAIN v

GridEq ==
    /\ IsGrid(lhs)
    /\ last' = Call("eq", <<>>, Returned(<<Grid_eq(lhs, rhs)>>))
    /\ UNCHANGED <<g, lhs, rhs, pre, loop>>

XEq ==
    /\ ~IsGrid(lhs)
    /\ last' = Call("eq", <<>>, Returned(<<X_eq(lhs, rhs)>>))
    /\ UNCHANGED <<g, lhs, rhs, pre, loop>>

\* -- lib.rs: a Grid<T> with its runtime flag
\* Grid::new() or Grid::new_no_symetry()
InitGrid ==
    /\ g \in {Grid_new, Grid_new_no_symetry}
    /\ lhs = Grid_new
    /\ rhs = Grid_new
    /\ pre = g
    /\ last = Call("new", <<>>, Returned(Unit))
    /\ loop = LoopIdle

\* Grid::new(), symmetry enabled
InitGridSymetrical ==
    /\ g = Grid_new
    /\ lhs = Grid_new
    /\ rhs = Grid_new
    /\ pre = g
    /\ last = Call("new", <<>>, Returned(Unit))
    /\ loop = LoopIdle

GridAddRow ==
    /\ Ready
    /\ Len(g.rows) < MaxRows
    /\ g' = Grid_add_row(g)
    /\ pre' = g
    /\ last' = Call("Grid::add_row", <<>>, Returned(Unit))
    /\ NoOperands

GridAddColumn ==
    /\ Ready
    /\ LET r == Grid_add_column(g)
       IN  /\ \A i \in 1..Len(r.self.rows) : Len(r.self.rows[i]) <= MaxCols
           /\ g' = r.self
           /\ last' = Call("Grid::add_column", <<>>,
                           IF r.panic THEN Panicked ELSE Returned(Unit))
    /\ pre' = g
    /\ NoOperands

GridPushPoint ==
    /\ Ready
    /\ \E x \in 0..(MaxRows - 1), y \in 0..(MaxCols - 1), v \in Values :
        LET r == Grid_push_point(g, x, y, v)
        IN  /\ \A i \in 1..Len(r.self.rows) : Len(r.self.rows[i]) <= MaxCols
            /\ g' = r.self
            /\ last' = Call("Grid::push_point", <<x, y, v>>,
                            IF r.panic THEN Panicked ELSE Returned(Unit))
    /\ pre' = g
    /\ NoOperands

\* grid[0].push(value): the caller extends row 0 by hand
RowPushFirst ==
    /\ Ready
    /\ Len(g.rows) > 0
    /\ Len(g.rows[1]) < MaxCols
    /\ \E value \in Values :
        /\ g' = [g EXCEPT !.rows[1] = Row_push(@, value)]
        /\ last' = Call("Row::push", <<0, value>>, Returned(Unit))
    /\ pre' = g
    /\ NoOperands

\* grid[i].push(value) on a row other than row 0
RowPush ==
    /\ Ready
    /\ \E i \in 1..(Len(g.rows) - 1), value \in Values :
        /\ Len(g.rows[i + 1]) < MaxCols
        /\ g' = [g EXCEPT !.rows[i + 1] = Row_push(@, value)]
        /\ last' = Call("Row::push", <<i, value>>, Returned(Unit))
    /\ pre' = g
    /\ NoOperands

\* grid[i].pop()
RowPop ==
    /\ Ready
    /\ \E i \in 0..(Len(g.rows) - 1) :
        LET r == Row_pop(g.rows[i + 1])
        IN  /\ g' = [g EXCEPT !.rows[i + 1] = r.self]
            /\ last' = Call("Row::pop", <<i>>, Returned(r.ret))
    /\ pre' = g
    /\ NoOperands

\* rows.into_iter().collect::<Grid<T>>()
GridFromIter ==
    /\ last.op = "new"
    /\ \E iter \in GridInputs :
        /\ g' = Grid_from_iter(iter)
        /\ pre' = Grid_from_iter(iter)
        /\ last' = Call("Grid::from_iter", <<iter>>, Returned(Unit))
    /\ NoOperands

\* -- lib.rs: the crate example, for any matrix
\* the non-empty matrices of R rows of C values
DocMatrices ==
    UNION {[1..r -> [1..c -> Values]] : r \in 1..MaxRows, c \in 1..MaxCols}

\* let grid = m.into_iter().collect::<Grid<T>>();
\* let mut constant_grid: Grid<T> = Grid::new();
InitDoc ==
    /\ \E m \in DocMatrices :
        /\ lhs = Grid_from_iter(m)
        /\ loop = [pc |-> "fill", m |-> m, i |-> 0, j |-> 0]
    /\ g = Grid_new
    /\ rhs = Grid_new
    /\ pre = Grid_new
    /\ last = Call("new", <<>>, Returned(Unit))

\* constant_grid.push_point((i, j), m[i][j]), cell after cell in row-major
\* order
DocPushPoint ==
    /\ loop.pc = "fill"
    /\ LET m == loop.m
           i == loop.i
           j == loop.j
           r == Grid_push_point(g, i, j, m[i + 1][j + 1])
       IN  /\ g' = r.self
           /\ last' = Call("Grid::push_point", <<i, j, m[i + 1][j + 1]>>,
                           IF r.panic THEN Panicked ELSE Returned(Unit))
           /\ loop' = IF r.panic THEN [loop EXCEPT !.pc = "panicked"]
                      ELSE IF j + 1 < Len(m[i + 1]) THEN [loop EXCEPT !.j = j + 1]
                      ELSE IF i + 1 < Len(m) THEN [loop EXCEPT !.i = i + 1, !.j = 0]
                      ELSE [loop EXCEPT !.pc = "compare"]
    /\ pre' = g
    /\ UNCHANGED <<lhs, rhs>>

\* assert_eq!(grid, constant_grid)
DocCompare ==
    /\ loop.pc = "compare"
    /\ last' = Call("eq", <<>>, Returned(<<Grid_eq(lhs, g)>>))
    /\ loop' = [loop EXCEPT !.pc = "done"]
    /\ UNCHANGED <<g, lhs, rhs, pre>>

\* ---- specifications -----------------------------------------------------------
\* a rectangular grid grown from empty
Next ==
    \/ AddRow
    \/ AddColumn
    \/ PushPoint
    \/ GetPoint
    \/ GetPointMut
    \/ ToJaggedToRectangular
    \/ Return

Spec == Init /\ [][Next]_vars

\* the Rectangular grid with push_point observed statement by statement
NextSteps ==
    \/ StepsAddRow
    \/ StepsAddColumn
    \/ PushPointBegin
    \/ PushPointStep
    \/ Return

SpecSteps == Init /\ [][NextSteps]_vars

\* a Grid<T> of either flag under every operation of Grid and Row
NextGrid ==
    \/ GridAddRow
    \/ GridAddColumn
    \/ GridPushPoint
    \/ RowPushFirst
    \/ RowPush
    \/ RowPop
    \/ GridFromIter
    \/ Return

SpecGrid == InitGrid /\ [][NextGrid]_vars

\* a symetrical Grid<T> whose caller grows it and pushes by hand onto any row
\* but row 0
NextGridTail ==
    \/ GridAddRow
    \/ GridAddColumn
    \/ GridPushPoint
    \/ RowPush
    \/ Return

SpecGridTail == InitGridSymetrical /\ [][NextGridTail]_vars

\* the crate example: one Grid collected, one built cell by cell, compared
NextDoc ==
    \/ DocPushPoint
    \/ DocCompare

SpecDoc == InitDoc /\ [][NextDoc]_vars

\* with_size against row_count add_row() calls then col_count add_column()
\* calls on an empty grid
NextSize ==
    \/ SizeAddRow
    \/ SizeAddColumn
    \/ SizeCompare

SpecSize == InitSize /\ [][NextSize]_vars

\* the Rectangular grid grown from empty, and at any point two calls tried
\* in both orders on clones of it
NextCommute ==
    \/ StepsAddRow
    \/ StepsAddColumn
    \/ WholePushPoint
    \/ PushPointBothOrders
    \/ AddRowAddColumnBothOrders
    \/ Return

SpecCommute == Init /\ [][NextCommute]_vars

\* a grid of either discipline under every operation of X and Y
NextX ==
    \/ AddRow
    \/ AddColumn
    \/ PushPoint
    \/ GetPoint
    \/ GetPointMut
    \/ IntoAsymetrical
    \/ IntoSymetrical
    \/ AsymAddRow
    \/ PushRow
    \/ PopRow
    \/ Resize
    \/ YPush
    \/ YPop
    \/ YIntoAsymetrical
    \/ YIntoSymetrical
    \/ FromIter
    \/ FromSlices
    \/ Return

SpecX == InitX /\ [][NextX]_vars

\* two grids compared
NextEq == GridEq \/ XEq

SpecEq == InitEq /\ [][NextEq]_vars

\* ---- properties ---------------------------------------------------------------
\* the arguments of the last call
ArgX == last.args[1]
ArgY == last.args[2]
ArgV == last.args[3]

\* the longest row of a grid, 0 without rows
MaxLength(self) ==
    IF Len(self.rows) = 0 THEN 0
    ELSE CHOOSE m \in {YLen(self.rows[i]) : i \in 1..Len(self.rows)} :
            \A i \in 1..Len(self.rows) : m >= YLen(self.rows[i])

\* C1: a rectangular grid grown from empty by add_row, add_column and
\* push_point has, between any two operations, all its rows of one length
\* (or no rows at all).
C1_RowsEqualLength == g._mode = Symetrical /\ IsRectangular(g)

C1_Witness ==
    /\ last.op \in {"add_row", "add_column", "push_point"}
    /\ XLen(g) >= 2
    /\ Columns(g) >= 2
    /\ XLen(pre) < XLen(g) \/ Columns(pre) < Columns(g)

\* C2: push_point(x, y, v) on an empty rectangular grid yields exactly x+1
\* rows of exactly y+1 cells each, get_point(x, y) returns v and every other
\* cell holds the default value.
C2_PushPointOnEmpty ==
    (last.op = "push_point" /\ XLen(pre) = 0) =>
        /\ ~last.panic
        /\ XLen(g) = ArgX + 1
        /\ \A i \in 1..XLen(g) : YLen(g.rows[i]) = ArgY + 1
        /\ get_point(g, ArgX, ArgY) = Returned(Some(ArgV))
        /\ \A i \in 0..(XLen(g) - 1) : \A j \in 0..(YLen(g.rows[i + 1]) - 1) :
                <<i, j>> # <<ArgX, ArgY>> =>
                    get_point(g, i, j) = Returned(Some(Default))

C2_Witness ==
    /\ last.op = "push_point"
    /\ XLen(pre) = 0
    /\ ArgX = MaxRows - 1
    /\ ArgY = MaxCols - 1
    /\ ArgV # Default

\* C3: push_point(x, y, v) on a rectangular grid of R rows and C columns
\* leaves max(R, x+1) rows, each of length max(C, y+1); with x < R and y < C
\* the dimensions are unchanged.
C3_PushPointGrowsExactly ==
    last.op = "push_point" =>
        /\ XLen(g) = Max(XLen(pre), ArgX + 1)
        /\ \A i \in 1..XLen(g) : YLen(g.rows[i]) = Max(Columns(pre), ArgY + 1)
        /\ (ArgX < XLen(pre) /\ ArgY < Columns(pre)) => Shape(g) = Shape(pre)

C3_Witness ==
    /\ last.op = "push_point"
    /\ XLen(pre) = 1
    /\ Columns(pre) = 2
    /\ ArgX = 1
    /\ ArgY = 0
    /\ Shape(g) = <<2, 2>>

\* C4: add_row() on a rectangular grid of column count L appends exactly one
\* row, of L default cells, and leaves the rows that existed unchanged.
C4_AddRowAppendsDefaultRow ==
    last.op = "add_row" =>
        /\ XLen(g) = XLen(pre) + 1
        /\ SubSeq(g.rows, 1, XLen(pre)) = pre.rows
        /\ Cells(g)[XLen(g)] = [j \in 1..Columns(pre) |-> Default]

C4_Witness ==
    /\ last.op = "add_row"
    /\ XLen(pre) = 1
    /\ Columns(pre) = 2
    /\ Cells(pre)[1] = <<1, 1>>

\* C5: add_column() on a rectangular grid with rows keeps the row count and
\* appends one default cell to every row, leaving the cells that existed
\* unchanged; on a grid without rows the result is one row of one default cell.
C5_AddColumnAppendsDefaultCell ==
    last.op = "add_column" =>
        IF XLen(pre) >= 1
        THEN /\ XLen(g) = XLen(pre)
             /\ \A i \in 1..XLen(g) :
                    Cells(g)[i] = Append(Cells(pre)[i], Default)
        ELSE Cells(g) = << <<Default>> >>

C5_Witness ==
    /\ last.op = "add_column"
    /\ XLen(pre) = 2
    /\ Cells(pre) = << <<1>>, <<1>> >>

\* C6: on a grid of either discipline get_point(x, y) and get_point_mut(x, y)
\* return None exactly when x >= row count or y >= length of row x, and
\* otherwise the value stored at row x, column y; they never panic and never
\* change the row count or a row's length.
C6_GetPointBounds ==
    last.op \in {"get_point", "get_point_mut"} =>
        LET absent == IF ArgX >= XLen(pre) THEN TRUE
                      ELSE ArgY >= YLen(pre.rows[ArgX + 1])
        IN  /\ ~last.panic
            /\ (last.ret = None) <=> absent
            /\ ~absent => last.ret = Some(Cells(pre)[ArgX + 1][ArgY + 1])
            /\ Shape(g) = Shape(pre)

C6_Witness ==
    /\ last.op = "get_point"
    /\ g._mode = Asymetrical
    /\ XLen(g) = 2
    /\ YLen(g.rows[1]) = 2
    /\ YLen(g.rows[2]) = 1
    /\ ArgX = 1
    /\ ArgY = 1
    /\ last.ret = None

\* C7: into_symetrical() on a jagged grid keeps the row count, makes every
\* row max_length long (the longest input row, 0 without rows), keeps the
\* cells of row i at their positions and fills the rest with the default.
C7_ToRectangularPads ==
    last.op = "into_symetrical" =>
        /\ g._mode = Symetrical
        /\ XLen(g) = XLen(pre)
        /\ \A i \in 1..XLen(g) :
            /\ g.rows[i]._mode = Symetrical
            /\ YLen(g.rows[i]) = MaxLength(pre)
            /\ \A j \in 1..YLen(g.rows[i]) :
                Cells(g)[i][j] = IF j <= YLen(pre.rows[i])
                                 THEN Cells(pre)[i][j]
                                 ELSE Default

C7_Witness ==
    /\ last.op = "into_symetrical"
    /\ Cells(pre) = << <<1>>, <<1, 1>> >>
    /\ Cells(g) = << <<1, 0>>, <<1, 1>> >>

\* C8: for a rectangular grid grown from empty, into_asymetrical() followed
\* by into_symetrical() returns an equal grid: same rows, same lengths, same
\* cells, no padding.
C8_RoundTrip ==
    last.op = "into_asymetrical.into_symetrical" =>
        /\ X_eq(g, pre)
        /\ Shape(g) = Shape(pre)
        /\ Cells(g) = Cells(pre)
        /\ g._mode = Symetrical

C8_Witness ==
    /\ last.op = "into_asymetrical.into_symetrical"
    /\ Shape(pre) = <<2, 2>>
    /\ Cells(pre)[2][2] = 1

\* C9: a grid built from rows supplied by the caller (from_iter, from
\* slices) is always jagged, with the rows as given; a rectangular grid never
\* has rows of unequal length but through into_symetrical().
C9_ConstructionYieldsJagged ==
    /\ last.op \in {"from_iter", "from_slices"} =>
        /\ g._mode = Asymetrical
        /\ Cells(g) = pre
    /\ g._mode = Symetrical => IsRectangular(g)

\* the unwrapped rows and the discipline of a Grid<T> or an X<T, M>
RowValues(v) ==
    IF IsGrid(v)
    THEN [i \in 1..Len(v.rows) |-> [j \in 1..Len(v.rows[i]) |-> v.rows[i][j][1]]]
    ELSE Cells(v)

Discipline(v) ==
    IF IsGrid(v)
    THEN (IF v.symetrical THEN Symetrical ELSE Asymetrical)
    ELSE v._mode

\* C10: two grids compare equal exactly when they have the same discipline
\* and the same rows; a symmetrical and an asymmetrical Grid holding the same
\* rows are not equal.
C10_EqualIffSameDisciplineAndRows ==
    last.op = "eq" =>
        (last.ret[1] <=> (/\ Discipline(lhs) = Discipline(rhs)
                          /\ RowValues(lhs) = RowValues(rhs)))

\* C11: on a jagged grid rows behave as a stack at the end of the row
\* sequence: push_row(r) and add_row() append at the end, pop_row() removes
\* and returns the last row with its cells and leaves the earlier rows
\* unchanged; pop_row() returns None, leaving the grid unchanged, exactly when
\* the grid has no rows.
C11_RowsAreAStack ==
    /\ last.op = "pop_row" =>
        /\ (last.ret = None) <=> (XLen(pre) = 0)
        /\ IF XLen(pre) = 0
           THEN g = pre
           ELSE /\ last.ret = Some(pre.rows[XLen(pre)])
                /\ g.rows = SubSeq(pre.rows, 1, XLen(pre) - 1)
    /\ last.op = "push_row" =>
        /\ XLen(g) = XLen(pre) + 1
        /\ SubSeq(g.rows, 1, XLen(pre)) = pre.rows
        /\ Cells(g)[XLen(g)] = last.args[1]
    /\ (last.op = "add_row" /\ pre._mode = Asymetrical) =>
        /\ XLen(g) = XLen(pre) + 1
        /\ SubSeq(g.rows, 1, XLen(pre)) = pre.rows
        /\ Cells(g)[XLen(g)] = <<>>

C11_Witness ==
    /\ last.op = "pop_row"
    /\ Cells(pre) = << <<1>>, <<1, 0>> >>
    /\ last.ret # None
    /\ Cells(g) = << <<1>> >>

\* C16: resize(new_len) on a jagged grid leaves exactly new_len rows: the
\* first min(old count, new_len) rows are unchanged, rows beyond new_len are
\* removed from the end and added rows are empty.
C16_ResizeRowCount ==
    last.op = "resize" =>
        LET new_len == last.args[1]
            kept == IF XLen(pre) <= new_len THEN XLen(pre) ELSE new_len
        IN  /\ XLen(g) = new_len
            /\ SubSeq(g.rows, 1, kept) = SubSeq(pre.rows, 1, kept)
            /\ \A i \in (kept + 1)..new_len : YLen(g.rows[i]) = 0

C16_Witness ==
    /\ last.op = "resize"
    /\ Cells(pre) = << <<1, 1>>, <<1>> >>
    /\ last.args[1] = 1
    /\ Cells(g) = << <<1, 1>> >>

\* C17: a conversion that needs no padding changes no data: into_asymetrical
\* on a grid, and into_asymetrical / into_symetrical on a row, return the same
\* number of rows, the same lengths and the same cells in the same order, with
\* only the discipline tag changed.
C17_ConversionRelabels ==
    /\ last.op = "into_asymetrical" =>
        /\ g._mode = Asymetrical
        /\ \A i \in 1..XLen(g) : g.rows[i]._mode = Asymetrical
        /\ Shape(g) = Shape(pre)
        /\ Cells(g) = Cells(pre)
    /\ last.op = "Y::into_asymetrical" =>
        /\ last.ret[1]._mode = Asymetrical
        /\ last.ret[1].points = pre.rows[last.args[1] + 1].points
    /\ last.op = "Y::into_symetrical" =>
        /\ last.ret[1]._mode = Symetrical
        /\ last.ret[1].points = pre.rows[last.args[1] + 1].points

C17_Witness ==
    /\ last.op = "into_asymetrical"
    /\ Cells(pre) = << <<0, 1>>, <<1, 0>> >>
    /\ Cells(g) = << <<0, 1>>, <<1, 0>> >>
    /\ g._mode = Asymetrical

\* C18: push and pop treat the cell sequence of a row as a stack: push(value)
\* appends exactly one cell holding value at the end and never fails; pop()
\* removes the last cell and returns its value, leaving the earlier cells
\* unchanged, and returns an absent result, with the row unchanged, exactly
\* when the row is empty.  No other row of the grid is touched.
C18_RowIsAStack ==
    /\ last.op = "Y::push" =>
        LET i == last.args[1] + 1
        IN  /\ ~last.panic
            /\ g.rows[i].points = Append(pre.rows[i].points, PointFrom(last.args[2]))
            /\ \A k \in 1..XLen(pre) : k # i => g.rows[k] = pre.rows[k]
            /\ XLen(g) = XLen(pre)
    /\ last.op = "Y::pop" =>
        LET i == last.args[1] + 1
            n == YLen(pre.rows[i])
        IN  /\ ~last.panic
            /\ (last.ret = None) <=> (n = 0)
            /\ IF n = 0
               THEN g = pre
               ELSE /\ last.ret = Some(PointUnwrap(pre.rows[i].points[n]))
                    /\ g.rows[i].points = SubSeq(pre.rows[i].points, 1, n - 1)
            /\ \A k \in 1..XLen(pre) : k # i => g.rows[k] = pre.rows[k]
            /\ XLen(g) = XLen(pre)

C18_Witness ==
    /\ last.op = "Y::pop"
    /\ last.args = <<0>>
    /\ Cells(pre) = << <<0, 1>>, <<1>> >>
    /\ last.ret = Some(1)
    /\ Cells(g) = << <<0>>, <<1>> >>

\* C20: frame of push_point on a Rectangular grid reachable from the empty
\* one: every cell that existed before the call, other than (x, y), keeps its
\* value, and every cell the call creates, other than (x, y), holds the
\* default value.
C20_PushPointFrame ==
    last.op = "push_point" =>
        /\ XLen(g) >= XLen(pre)
        /\ \A i \in 1..XLen(pre) : YLen(g.rows[i]) >= YLen(pre.rows[i])
        /\ \A i \in 1..XLen(g) : \A j \in 1..YLen(g.rows[i]) :
            (i # ArgX + 1 \/ j # ArgY + 1) =>
                IF i <= XLen(pre) /\ j <= Columns(pre)
                THEN Cells(g)[i][j] = Cells(pre)[i][j]
                ELSE Cells(g)[i][j] = Default

C20_Witness ==
    /\ last.op = "push_point"
    /\ last.args = <<1, 1, 1>>
    /\ Cells(pre) = << <<1, 1>> >>
    /\ Cells(g) = << <<1, 1>>, <<0, 1>> >>

\* the statements of push_point, run one at a time, leave the grid that the
\* call as a whole leaves
StepsRefinePushPoint ==
    last.op = "push_point" =>
        LET r == push_point(pre, ArgX, ArgY, ArgV)
        IN  g = r.self /\ last.panic = r.panic

\* the column count push_point(x, y, v) ends with
FinalColumns == Max(Columns(pre), loop.y + 1)

\* the row count push_point(x, y, v) ends with
FinalRows == Max(Max(XLen(pre), 1), loop.x + 1)

\* C19: inside push_point(x, y, v) the growth steps run in the order (1) one
\* row is added if the grid is empty, (2) columns are added, (3) rows are
\* added; after every single add_column() or add_row() step all rows have the
\* same length, so no intermediate state has a row shorter than row 0, and
\* every row added in step 3 is created at the final column count.
C19_GrowthOrder ==
    /\ IsRectangular(g)
    /\ loop.pc = "bootstrap" => g = pre
    /\ loop.pc = "columns" =>
        /\ XLen(g) = Max(XLen(pre), 1)
        /\ Columns(g) + loop.n = FinalColumns
    /\ loop.pc = "rows" =>
        /\ XLen(g) + loop.n = FinalRows
        /\ \A i \in 1..XLen(g) : YLen(g.rows[i]) = FinalColumns
    /\ loop.pc = "write" =>
        /\ XLen(g) = FinalRows
        /\ \A i \in 1..XLen(g) : YLen(g.rows[i]) = FinalColumns

C19_Witness ==
    /\ loop.pc = "rows"
    /\ loop.x = 1
    /\ loop.y = 1
    /\ loop.n = 0
    /\ Cells(pre) = << <<1>> >>
    /\ Cells(g) = << <<1, 0>>, <<0, 0>> >>

\* C13: on a Grid whose flag is off, add_column and push_point panic before
\* they modify anything: the call is fatal and the grid is left exactly as it
\* was, never silently ignored and never answered with defaults.
C13_AsymetricalCallPanics ==
    (last.op \in {"Grid::add_column", "Grid::push_point"} /\ ~pre.symetrical) =>
        /\ last.panic
        /\ g = pre

C13_Witness ==
    /\ last.op = "Grid::add_column"
    /\ ~pre.symetrical
    /\ Grid_Cells(pre) = << <<1>>, <<>> >>
    /\ last.panic
    /\ g = pre

\* C14: a Grid with symmetry enabled keeps all rows equally long through any
\* sequence of add_row, add_column, push_point and Row::push through grid[i],
\* as long as the caller never pushes onto row 0 by hand.
C14_SymetricalStaysRectangular ==
    g.symetrical => Grid_IsRectangular(g)

\* C15: for a non-empty R x C matrix, the Grid collected from its rows
\* compares equal to the Grid built from Grid::new() by push_point((i, j),
\* m[i][j]) for every cell in row-major order; none of the calls panics.
C15_CollectedEqualsBuilt ==
    /\ loop.pc # "panicked"
    /\ loop.pc = "done" => last.ret = <<TRUE>>

C15_Witness ==
    /\ loop.pc = "done"
    /\ loop.m = << <<0, 1>>, <<1, 0>> >>
    /\ Grid_Cells(g) = << <<0, 1>>, <<1, 0>> >>
    /\ g.symetrical
    /\ ~lhs.symetrical
    /\ last.ret = <<TRUE>>

\* Row::push and Row::pop are Vec's push and pop on the row's columns
RowIsAStack ==
    /\ last.op = "Row::push" =>
        LET i == last.args[1] + 1
        IN  /\ ~last.panic
            /\ g.rows[i] = Append(pre.rows[i], ColumnFrom(last.args[2]))
            /\ \A k \in 1..Len(pre.rows) : k # i => g.rows[k] = pre.rows[k]
            /\ Len(g.rows) = Len(pre.rows)
    /\ last.op = "Row::pop" =>
        LET i == last.args[1] + 1
            n == Len(pre.rows[i])
        IN  /\ (last.ret = None) <=> (n = 0)
            /\ IF n = 0
               THEN g = pre
               ELSE /\ last.ret = Some(pre.rows[i][n][1])
                    /\ g.rows[i] = SubSeq(pre.rows[i], 1, n - 1)
            /\ \A k \in 1..Len(pre.rows) : k # i => g.rows[k] = pre.rows[k]

\* C12 as stated: for every row_count and col_count, with_size(row_count,
\* col_count) is equal to the grid obtained from an empty Rectangular grid by
\* row_count add_row() calls followed by col_count add_column() calls.
C12_WithSizeEqualsGrown ==
    loop.pc = "done" => last.ret = <<TRUE>>

\* C12 amended: the two grids are equal whenever row_count >= 1 or
\* col_count = 0.  With row_count = 0 and col_count >= 1 the first
\* add_column() creates a row, so the grown grid has one row of col_count
\* cells and differs from with_size(0, col_count), which has no rows.
C12_WithSizeEqualsGrownFromRows ==
    loop.pc = "done" =>
        IF loop.row_count >= 1 \/ loop.col_count = 0
        THEN /\ last.ret = <<TRUE>>
             /\ Shape(g) = [i \in 1..loop.row_count |-> loop.col_count]
        ELSE /\ last.ret = <<FALSE>>
             /\ Shape(g) = <<loop.col_count>>

C12_Witness ==
    /\ loop.pc = "done"
    /\ loop.row_count = 2
    /\ loop.col_count = 3
    /\ Cells(g) = << <<0, 0, 0>>, <<0, 0, 0>> >>
    /\ last.ret = <<TRUE>>

\* C21: push_point never panics: on a Rectangular grid reached from X::new()
\* by add_row, add_column and push_point the final indexed write rows[x][y]
\* is in bounds for every x and y, and the same holds for Grid::push_point on
\* every Grid with symmetry enabled that its public operations reach,
\* Row::push on grid[i] included.
C21_PushPointNeverPanics ==
    /\ last.op = "push_point" => ~last.panic
    /\ (last.op = "Grid::push_point" /\ pre.symetrical) => ~last.panic

\* C22: push_point calls at distinct points commute: on any Rectangular grid,
\* for (x1, y1) # (x2, y2), push_point(x1, y1, v1) then push_point(x2, y2, v2)
\* gives a grid equal to the one the two calls give in the opposite order,
\* with the same dimensions and the same cell values.
C22_PushPointsCommute ==
    last.op = "push_point.push_point" =>
        /\ ~last.panic
        /\ last.ret = <<TRUE>>
        /\ Shape(lhs) = Shape(rhs)
        /\ Cells(lhs) = Cells(rhs)

C22_Witness ==
    /\ last.op = "push_point.push_point"
    /\ Cells(pre) = << <<1>> >>
    /\ last.args = << [x |-> 0, y |-> 1, value |-> 1], [x |-> 1, y |-> 0, value |-> 1] >>
    /\ Cells(lhs) = << <<1, 1>>, <<1, 0>> >>
    /\ Cells(rhs) = << <<1, 1>>, <<1, 0>> >>

\* C23 as stated: add_row() and add_column() commute on every Rectangular
\* grid, the empty grid included: add_row() then add_column() gives a grid
\* equal to add_column() then add_row().
C23_AddRowAddColumnCommute ==
    last.op = "add_row.add_column" => last.ret = <<TRUE>>

\* C23 amended: add_row() and add_column() commute on every Rectangular grid
\* that has at least one row.  On the empty grid they do not: add_row() then
\* add_column() gives one row of one cell, while add_column() creates a row
\* itself, so add_column() then add_row() gives two rows of one cell.
C23_AddRowAddColumnCommuteWithRows ==
    last.op = "add_row.add_column" =>
        IF XLen(pre) >= 1
        THEN /\ last.ret = <<TRUE>>
             /\ Cells(lhs) = Cells(rhs)
        ELSE /\ last.ret = <<FALSE>>
             /\ Shape(lhs) = <<1>>
             /\ Shape(rhs) = <<1, 1>>

C23_Witness ==
    /\ last.op = "add_row.add_column"
    /\ Cells(pre) = << <<1>> >>
    /\ Cells(lhs) = << <<1, 0>>, <<0, 0>> >>
    /\ Cells(rhs) = << <<1, 0>>, <<0, 0>> >>
    /\ last.ret = <<TRUE>>

====
